---- MODULE Spec2Model ----
(***************************************************************************)
(* CardTraders backend: the live conversation store (routers/chats.py),    *)
(* its websocket connection registry, and the payment webhook bridge       *)
(* (routers/payments.py), as one state machine.                            *)
(*                                                                         *)
(* Every request handler is an asyncio task.  A task runs without          *)
(* interruption between two awaits that really suspend (a MongoDB call, a   *)
(* websocket send); the SQLAlchemy session is synchronous, so the SQL part  *)
(* of a handler is one step.  Each action below is one such segment: the    *)
(* effect of the awaited call together with the synchronous code around it. *)
(***************************************************************************)
EXTENDS Integers, Sequences, FiniteSets, TLC

\* ---------------------------------------------------------------- bounds
NTasks == 2          \* handler tasks that may be in flight together
MaxOps == 4          \* requests accepted in one behaviour

NSockets == 2        \* websocket connections opened in one behaviour
MaxLimit == 2        \* largest page size list_messages is asked for
MaxFrames == 2       \* frames received over the websockets in one behaviour

Tasks == 1..NTasks                 \* HTTP handler tasks
Sockets == 1..NSockets             \* websocket objects; each connects once
WsTask(w) == NTasks + w            \* the chat_ws coroutine serving socket w
Agents == Tasks \cup {WsTask(w) : w \in Sockets}
Users == {1, 2, 3}                 \* user ids, ordered as their strings sort
SystemSender == 0                  \* senderId "system" of payment messages
NoneStr == "None"                  \* Python None in a string-valued field

VARIABLES
    conversations,   \* mdb["conversations"]: sequence of documents, _id = index
    messages,        \* mdb["messages"]: sequence of documents, _id = index
    clock,           \* datetime.now(timezone.utc)
    pc,              \* per task: the await it is suspended at ("idle": none)
    loc,             \* per task: the handler's local variables
    ret,             \* per task: the response of its last finished request
    active,          \* ChatWSManager.active: convoId -> set of websockets
    alive,           \* per websocket: its transport still works
    wslog,           \* per websocket: the envelopes send_json delivered, in order
    payments,        \* table payments: sequence of rows, id = index
    wallets,         \* table wallets: user_id -> balance, for the users with a row
    ledger,          \* table ledger: sequence of rows
    webhook_events,  \* table webhook_events: sequence of rows
    applied,         \* log: the webhook events that changed a payment, in order
    emitted,         \* log: the envelopes the payment handlers gave to broadcast
    sched,           \* how requests arrive: "concurrent", or "serial" (each after
                     \* the previous one has returned); fixed in a behaviour
    budget           \* requests the environment issues; fixed in a behaviour

store == <<conversations, messages>>
wsvars == <<active, alive, wslog>>
cfg == <<sched, budget>>
sql == <<payments, wallets, ledger, webhook_events>>
payvars == <<payments, wallets, ledger, webhook_events, applied, emitted>>
vars == <<conversations, messages, clock, pc, loc, ret, active, alive, wslog,
          payments, wallets, ledger, webhook_events, applied, emitted, sched, budget>>

NoLoc == [op |-> "none"]
NoRet == [op |-> "none", status |-> 0]
NoLast == [text |-> NoneStr, senderId |-> SystemSender, at |-> 0]

Min(S) == CHOOSE x \in S : \A y \in S : x <= y
Max(S) == CHOOSE x \in S : \A y \in S : x >= y

\* every order in which list(a_set) may enumerate the set
Orders(S) ==
    {s \in [1..Cardinality(S) -> S] : \A i, j \in 1..Cardinality(S) : s[i] = s[j] => i = j}

Idle(t) == pc[t] = "idle"

\* No other agent is inside a handler.
Alone(a) == \A b \in Agents \ {a} : pc[b] \in {"idle", "ws_new", "ws_recv", "ws_closed"}

\* Agent a may start something now: always when requests overlap; when they are
\* served one after another, only while nothing else runs (one task serves them all).
Turn(a) == sched = "serial" => (Alone(a) /\ (a \in Tasks => a = 1))

\* A request arrives at agent a: requests arrive at distinct times.
Accept(a) == clock <= budget /\ clock' = clock + 1 /\ Turn(a)

Return(t, r) ==
    /\ pc' = [pc EXCEPT ![t] = "idle"]
    /\ loc' = [loc EXCEPT ![t] = NoLoc]
    /\ ret' = [ret EXCEPT ![t] = r]

Goto(t, p, l) ==
    /\ pc' = [pc EXCEPT ![t] = p]
    /\ loc' = [loc EXCEPT ![t] = l]
    /\ UNCHANGED ret

\* ------------------------------------------------------------ ChatWSManager

\* ChatWSManager.connect, after ws.accept(): active.setdefault(convo_id, set()).add(ws)
connect(reg, c, w) ==
    IF c \in DOMAIN reg THEN [reg EXCEPT ![c] = @ \cup {w}] ELSE reg @@ (c :> {w})

\* a cleanup that leaves the entry of the conversation in place
keep_empty(reg, c) == reg

\* if conns is not None and len(conns) == 0: self.active.pop(convo_id, None)
pop_empty(reg, c) ==
    IF reg[c] = {} THEN [k \in DOMAIN reg \ {c} |-> reg[k]] ELSE reg

\* a cleanup that drops the whole entry of the conversation
disconnect_all(reg, c, w) == [k \in DOMAIN reg \ {c} |-> reg[k]]

\* ChatWSManager.disconnect: remove ws; pop the entry when its set is empty
disconnect(reg, c, w) ==
    IF c \in DOMAIN reg
    THEN pop_empty([reg EXCEPT ![c] = @ \ {w}], c)
    ELSE reg

\* a lookup that returns the connections of every conversation
everyone(reg, c) == UNION {reg[k] : k \in DOMAIN reg}

\* self.active.get(convo_id, set())
subscribers(reg, c) == IF c \in DOMAIN reg THEN reg[c] ELSE {}

\* ws.send_json succeeds on a socket whose transport works and that is not closed
can_send(w) == alive[w] /\ pc[WsTask(w)] \in {"ws_recv", "bcast"}

\* What a handler does when its broadcast is over: an HTTP handler returns its
\* response, chat_ws goes back to receive_json.
Finish(t, l) ==
    IF l.result.op = "chat_ws" THEN Goto(t, "ws_recv", l.result)
    ELSE Return(t, l.result)

\* ChatWSManager.broadcast up to its first send: conns = list(active.get(convo_id, set()))
broadcast(t, c, env, result) ==
    LET S == subscribers(active, c)
    IN IF S = {} THEN Finish(t, [result |-> result])
       ELSE \E order \in Orders(S) :
               Goto(t, "bcast", [op |-> "broadcast", convoId |-> c, env |-> env,
                                 conns |-> order, snap |-> S, tried |-> {},
                                 failed |-> {}, result |-> result])

\* One turn of the loop of broadcast: send_json to the next connection; an exception
\* drops that connection and the loop goes on.
broadcast_send(t) ==
    /\ pc[t] = "bcast"
    /\ LET l == loc[t]
           w == Head(l.conns)
           ok == can_send(w)
           l2 == [l EXCEPT !.conns = Tail(l.conns), !.tried = @ \cup {w},
                           !.failed = IF ok THEN @ ELSE @ \cup {w}]
       IN /\ IF ok
             THEN /\ wslog' = [wslog EXCEPT ![w] = Append(@, l.env)]
                  /\ UNCHANGED active
             ELSE /\ active' = disconnect(active, l.convoId, w)
                  /\ UNCHANGED wslog
          /\ IF l2.conns = <<>> THEN Finish(t, l2) ELSE Goto(t, "bcast", l2)
    /\ UNCHANGED <<store, clock, alive, cfg, payvars>>

\* ------------------------------------------------------------ store helpers

\* a store without the unique index
no_unique_convo == FALSE

\* ensure_indexes: the unique index "unique_convo" on (participantsHash, listingId)
unique_convo == TRUE

\* parts = sorted([str(x) for x in payload.participants])
sorted(ps) == IF ps[1] <= ps[2] THEN ps ELSE <<ps[2], ps[1]>>

\* payload.listingId or None
listing_or_none(l) == IF l = "" THEN NoneStr ELSE l

\* the documents matching {"participantsHash": h, "listingId": l}
match_convo(h, l) ==
    {i \in DOMAIN conversations :
        conversations[i].participantsHash = h /\ conversations[i].listingId = l}

\* ------------------------------------------------- get_or_create_conversation

\* Request arrival up to the query phase of find_one_and_update(upsert=True).
get_or_create_find(t, ps, lst) ==
    /\ Idle(t) /\ Accept(t)
    /\ IF Len(ps) # 2
       THEN /\ Return(t, [op |-> "get_or_create", status |-> 400,
                          participants |-> ps])
       ELSE LET parts == sorted(ps)
                lid == listing_or_none(lst)
                m == match_convo(parts, lid)
            IN /\ Goto(t, "goc_write",
                       [op |-> "get_or_create", participants |-> ps, parts |-> parts,
                        listingId |-> lid, now |-> clock,
                        found |-> IF m = {} THEN 0 ELSE Min(m)])
    /\ UNCHANGED <<store, wsvars, cfg, payvars>>

\* The document the upsert inserts ($setOnInsert and $set).
new_convo(l) ==
    [participants |-> l.parts, participantsHash |-> l.parts, listingId |-> l.listingId,
     createdAt |-> l.now, updatedAt |-> l.now,
     unread |-> [p \in {l.parts[1], l.parts[2]} |-> 0], lastMessage |-> NoLast]

\* an upsert whose $set also carries the unread map
touch_and_reset(conv, now) ==
    [conv EXCEPT !.updatedAt = now, !.unread = [p \in DOMAIN @ |-> 0]]

\* "$set": {"updatedAt": now} on the matched document
touch(conv, now) == [conv EXCEPT !.updatedAt = now]

\* Write phase of the upsert: update the matched document, or insert; an insert that
\* hits the unique index is retried by the server as an update of the existing one.
get_or_create_write(t) ==
    /\ pc[t] = "goc_write"
    /\ LET l == loc[t]
           dup == match_convo(l.parts, l.listingId)
           target == IF l.found # 0 THEN l.found
                     ELSE IF unique_convo /\ dup # {} THEN Min(dup) ELSE 0
           r == [op |-> "get_or_create", status |-> 200,
                 participants |-> l.participants, listingId |-> l.listingId,
                 found |-> l.found]
       IN IF target # 0
          THEN /\ conversations' = [conversations EXCEPT ![target] = touch(@, l.now)]
               /\ Return(t, r @@ [id |-> target])
          ELSE /\ conversations' = Append(conversations, new_convo(l))
               /\ Return(t, r @@ [id |-> Len(conversations) + 1])
    /\ UNCHANGED <<messages, clock, wsvars, cfg, payvars>>

\* ------------------------------------------------------------- send_message

\* an insert that is acknowledged before the document is stored
insert_lost(msgs, doc) == msgs

\* res = await db.messages.insert_one(doc): the document is in the collection when
\* the call returns
insert_one(msgs, doc) == Append(msgs, doc)

\* the message document send_message and upload_image insert
message_doc(c, s, text, imageUrl, now) ==
    [convoId |-> c, senderId |-> s, text |-> text, imageUrl |-> imageUrl, at |-> now,
     status |-> "sent", readBy |-> {s}, type |-> "chat", paymentId |-> 0]

\* a handler that lets any sender through
any_sender(conv, s) == TRUE

\* payload.senderId in conv.get("participants", [])
is_participant(conv, s) == \E i \in 1..Len(conv.participants) : conv.participants[i] = s

\* find_one on the conversation, the 404 and 403 checks, and the message document
send_message_find(t, c, s, text, imageUrl) ==
    /\ Idle(t) /\ Accept(t)
    /\ IF c \notin DOMAIN conversations
       THEN /\ Return(t, [op |-> "send_message", status |-> 404,
                          convoId |-> c, senderId |-> s])
       ELSE IF ~is_participant(conversations[c], s)
       THEN /\ Return(t, [op |-> "send_message", status |-> 403,
                          convoId |-> c, senderId |-> s])
       ELSE /\ Goto(t, "sm_insert",
                    [op |-> "send_message", convoId |-> c, senderId |-> s,
                     conv |-> conversations[c], now |-> clock,
                     doc |-> message_doc(c, s, text, imageUrl, clock)])
    /\ UNCHANGED <<store, wsvars, cfg, payvars>>

\* insert_one(doc)
send_message_insert(t) ==
    /\ pc[t] = "sm_insert"
    /\ messages' = insert_one(messages, loc[t].doc)
    /\ Goto(t, "sm_update", loc[t] @@ [ins |-> Len(messages) + 1])
    /\ UNCHANGED <<conversations, clock, wsvars, cfg, payvars>>

\* a loop that forgets to skip the sender
bump_all(conv, s) ==
    [p \in DOMAIN conv.unread |-> conv.unread[p] + 1]

\* unread = conv.get("unread", ...); unread[p] = int(unread.get(p, 0)) + 1 for p # sender
bump_unread(conv, s) ==
    LET ps == {conv.participants[1], conv.participants[2]} \ {s}
    IN [p \in DOMAIN conv.unread \cup ps |->
           IF p \in ps
           THEN (IF p \in DOMAIN conv.unread THEN conv.unread[p] ELSE 0) + 1
           ELSE conv.unread[p]]

\* payload.text or ""
text_or_empty(x) == IF x = NoneStr THEN "" ELSE x

\* payload.text or None, payload.imageUrl or None
str_or_none(x) == IF x = "" THEN NoneStr ELSE x

\* update_one: $set lastMessage, updatedAt and the unread map computed from the
\* conversation read by find_one; then the new_message broadcast starts
send_message_update(t) ==
    /\ pc[t] = "sm_update"
    /\ LET l == loc[t]
           c == l.convoId
       IN /\ conversations' =
                [conversations EXCEPT
                    ![c].lastMessage = [text |-> text_or_empty(l.doc.text),
                                        senderId |-> l.senderId, at |-> l.now],
                    ![c].updatedAt = l.now,
                    ![c].unread = bump_unread(l.conv, l.senderId)]
          /\ broadcast(t, c,
                       [type |-> "new_message", convoId |-> c, id |-> l.ins,
                        senderId |-> l.senderId, text |-> str_or_none(l.doc.text),
                        imageUrl |-> str_or_none(l.doc.imageUrl)],
                       [op |-> l.op, status |-> 200, id |-> l.ins,
                        convoId |-> c, senderId |-> l.senderId])
    /\ UNCHANGED <<messages, clock, wsvars, cfg, payvars>>

\* --------------------------------------------------------------- upload_image

\* find_one, the 404 and 403 checks, the checks of image_base64 (empty, over 10 MB
\* or not base64: 400), the file written under uploads/, and the message document
upload_image_find(t, c, s, image_ok) ==
    /\ Idle(t) /\ Accept(t)
    /\ IF c \notin DOMAIN conversations
       THEN /\ Return(t, [op |-> "upload_image", status |-> 404,
                          convoId |-> c, senderId |-> s])
       ELSE IF ~is_participant(conversations[c], s)
       THEN /\ Return(t, [op |-> "upload_image", status |-> 403,
                          convoId |-> c, senderId |-> s])
       ELSE IF ~image_ok
       THEN /\ Return(t, [op |-> "upload_image", status |-> 400,
                          convoId |-> c, senderId |-> s])
       ELSE /\ Goto(t, "sm_insert",
                    [op |-> "upload_image", convoId |-> c, senderId |-> s,
                     conv |-> conversations[c], now |-> clock,
                     doc |-> message_doc(c, s, NoneStr, "/images/local/uploads/f", clock)])
    /\ UNCHANGED <<store, wsvars, cfg, payvars>>

\* ------------------------------------------------------------------ mark_read

\* an update that replaces the whole unread map: {"$set": {"unread": {readerId: 0}}}
mark_read_whole_map(conv, r) == [conv EXCEPT !.unread = (r :> 0)]

\* {"$set": {"unread.<readerId>": 0}} applied to the matched document
mark_read_set(conv, r) == [conv EXCEPT !.unread = (r :> 0) @@ @]

\* update_one with that $set; 404 when nothing matched; then the read broadcast starts
mark_read(t, c, r) ==
    /\ Idle(t) /\ Accept(t)
    /\ IF c \notin DOMAIN conversations
       THEN /\ Return(t, [op |-> "mark_read", status |-> 404,
                          convoId |-> c, readerId |-> r])
            /\ UNCHANGED conversations
       ELSE /\ conversations' =
                  [conversations EXCEPT ![c] = mark_read_set(@, r)]
            /\ broadcast(t, c, [type |-> "read", convoId |-> c, readerId |-> r],
                         [op |-> "mark_read", status |-> 200,
                          convoId |-> c, readerId |-> r])
    /\ UNCHANGED <<messages, wsvars, cfg, payvars>>

\* -------------------------------------------------------------- list_messages

\* find(q).sort("_id", -1).limit(limit): the ids, newest first
RECURSIVE newest_first(_, _)
newest_first(ids, limit) ==
    IF ids = {} \/ limit = 0 THEN <<>>
    ELSE <<Max(ids)>> \o newest_first(ids \ {Max(ids)}, limit - 1)

\* the list returned as the cursor yields it, newest first
not_reversed(s) == s

\* items.reverse()
reverse(s) == [i \in 1..Len(s) |-> s[Len(s) + 1 - i]]

\* q = {"convoId": c}, and {"_id": {"$lt": beforeId}} when beforeId is given
\* (beforeId 0: the parameter is absent)
list_messages_items(c, beforeId, limit) ==
    LET q == {i \in DOMAIN messages :
                 messages[i].convoId = c /\ (beforeId # 0 => i < beforeId)}
    IN reverse(newest_first(q, limit))

list_messages(t, c, beforeId, limit) ==
    /\ Idle(t) /\ Accept(t)
    /\ Return(t, [op |-> "list_messages", status |-> 200, convoId |-> c,
                  beforeId |-> beforeId, limit |-> limit,
                  items |-> list_messages_items(c, beforeId, limit)])
    /\ UNCHANGED <<store, wsvars, cfg, payvars>>

\* -------------------------------------------------------------------- chat_ws

\* ws_manager.connect: accept the socket and register it under convoId
chat_ws_connect(w, c, uid) ==
    /\ pc[WsTask(w)] = "ws_new" /\ Turn(WsTask(w))
    /\ active' = connect(active, c, w)
    /\ Goto(WsTask(w), "ws_recv", [op |-> "chat_ws", convoId |-> c, user_id |-> uid])
    /\ UNCHANGED <<store, clock, alive, wslog, cfg, payvars>>

\* receive_json returned a frame: typing and stop_typing with a user id are
\* broadcast, every other frame is ignored (uid 0: no userId in frame nor query)
chat_ws_receive(w, type, userId) ==
    /\ pc[WsTask(w)] = "ws_recv" /\ alive[w]
    /\ Accept(WsTask(w))
    /\ LET l == loc[WsTask(w)]
           uid == IF userId # 0 THEN userId ELSE l.user_id
       IN IF type \in {"typing", "stop_typing"} /\ uid # 0
          THEN broadcast(WsTask(w), l.convoId,
                         [type |-> "typing", convoId |-> l.convoId, userId |-> uid,
                          isTyping |-> (type = "typing")], l)
          ELSE UNCHANGED <<pc, loc, ret>>
    /\ UNCHANGED <<store, wsvars, cfg, payvars>>

\* receive_json raised (the peer closed, or the transport is gone): the finally
\* clause unregisters the socket
chat_ws_close(w) ==
    /\ pc[WsTask(w)] = "ws_recv" /\ Turn(WsTask(w))
    /\ active' = disconnect(active, loc[WsTask(w)].convoId, w)
    /\ alive' = [alive EXCEPT ![w] = FALSE]
    /\ Goto(WsTask(w), "ws_closed", NoLoc)
    /\ UNCHANGED <<store, clock, wslog, cfg, payvars>>

\* receive_json raised on a frame that is not JSON (json.loads fails): the handler
\* of "except Exception" closes the socket
chat_ws_bad_frame(w) ==
    /\ pc[WsTask(w)] = "ws_recv" /\ alive[w]
    /\ Accept(WsTask(w))
    /\ alive' = [alive EXCEPT ![w] = FALSE]
    /\ Goto(WsTask(w), "ws_closing", loc[WsTask(w)])
    /\ UNCHANGED <<store, active, wslog, cfg, payvars>>

\* websocket.close() returned: the finally clause unregisters the socket
chat_ws_closing(w) ==
    /\ pc[WsTask(w)] = "ws_closing"
    /\ active' = disconnect(active, loc[WsTask(w)].convoId, w)
    /\ Goto(WsTask(w), "ws_closed", NoLoc)
    /\ UNCHANGED <<store, clock, alive, wslog, cfg, payvars>>

\* the peer of an open socket vanishes; the server learns of it at its next
\* send or receive
break_transport(w) ==
    /\ pc[WsTask(w)] \in {"ws_recv", "bcast"} /\ alive[w] /\ Turn(WsTask(w))
    /\ alive' = [alive EXCEPT ![w] = FALSE]
    /\ UNCHANGED <<store, clock, pc, loc, ret, active, wslog, cfg, payvars>>

\* ------------------------------------------------------------- create_order

\* mongo.mongo_enabled(): a client was built at import (MONGODB_URI set, MONGO_ENABLED on)
mongo_enabled == TRUE

\* the message of type "payment" create_order inserts (it has no text and no imageUrl)
payment_doc(c, pid, amount, now) ==
    [convoId |-> c, senderId |-> SystemSender, text |-> NoneStr, imageUrl |-> NoneStr,
     at |-> now, status |-> "PENDING", readBy |-> {}, type |-> "payment",
     paymentId |-> pid, amount |-> amount]

\* an order that is stored as paid from the start
new_payment_paid(buyer, seller, amount) ==
    [buyer_id |-> buyer, seller_id |-> seller, amount |-> amount, status |-> "PAID",
     provider_payment_id |-> NoneStr]

\* Payment(buyer_id, seller_id, amount, status="PENDING", ...)
new_payment(buyer, seller, amount) ==
    [buyer_id |-> buyer, seller_id |-> seller, amount |-> amount, status |-> "PENDING",
     provider_payment_id |-> NoneStr]

\* Request arrival (X_USER_ID unset: the caller is taken to be the buyer), the Payment
\* row added and committed; without chatId the checkout response follows at once.
\* chatId 0: the request has none.
create_order(t, buyer, seller, amount, chatId) ==
    /\ Idle(t) /\ Accept(t)
    /\ payments' = Append(payments, new_payment(buyer, seller, amount))
    /\ LET id == Len(payments) + 1
       IN IF chatId # 0 /\ mongo_enabled
          THEN Goto(t, "co_find", [op |-> "create_order", order_id |-> id,
                                   chatId |-> chatId, buyer_id |-> buyer,
                                   seller_id |-> seller, amount |-> amount,
                                   now |-> clock])
          ELSE Return(t, [op |-> "create_order", status |-> 200, order_id |-> id])
    /\ UNCHANGED <<store, wsvars, cfg, wallets, ledger, webhook_events, applied, emitted>>

\* find_one on the conversation: when it lists participants and neither buyer nor
\* seller is one, HTTPException(403) is raised, and the enclosing "except Exception"
\* swallows it: the order stays, without a message, and the response is the usual one
create_order_find(t) ==
    /\ pc[t] = "co_find"
    /\ LET l == loc[t]
           c == l.chatId
           rejected == /\ c \in DOMAIN conversations
                       /\ Len(conversations[c].participants) > 0
                       /\ ~is_participant(conversations[c], l.buyer_id)
                       /\ ~is_participant(conversations[c], l.seller_id)
       IN IF rejected
          THEN Return(t, [op |-> "create_order", status |-> 200, order_id |-> l.order_id])
          ELSE Goto(t, "co_insert", l)
    /\ UNCHANGED <<store, clock, wsvars, cfg, payvars>>

\* insert_one(doc)
create_order_insert(t) ==
    /\ pc[t] = "co_insert"
    /\ LET l == loc[t]
       IN /\ messages' = insert_one(messages,
                                   payment_doc(l.chatId, l.order_id, l.amount, l.now))
          /\ Goto(t, "co_update", l @@ [message_id |-> Len(messages) + 1])
    /\ UNCHANGED <<conversations, clock, wsvars, cfg, payvars>>

\* update_one: $set lastMessage and updatedAt on the conversation, if there is one;
\* then the payment.started broadcast starts
create_order_update(t) ==
    /\ pc[t] = "co_update"
    /\ LET l == loc[t]
           c == l.chatId
           env == [type |-> "payment.started", convoId |-> c, id |-> l.message_id,
                   paymentId |-> l.order_id, status |-> "PENDING"]
       IN /\ conversations' =
                IF c \in DOMAIN conversations
                THEN [conversations EXCEPT
                         ![c].lastMessage = [text |-> "Payment request",
                                             senderId |-> SystemSender, at |-> l.now],
                         ![c].updatedAt = l.now]
                ELSE conversations
          /\ emitted' = Append(emitted, env)
          /\ broadcast(t, c, env,
                       [op |-> "create_order", status |-> 200, order_id |-> l.order_id])
    /\ UNCHANGED <<messages, clock, wsvars, cfg, sql, applied>>

\* ---------------------------------------------------------- payments_webhook

\* payload.get("provider") or payload.get("source") or "unknown"
provider_of(pl) == IF pl.provider = NoneStr THEN "unknown" ELSE pl.provider

\* payload.get("event_id") or payload.get("id") or payload.get("payment_id")
\* (the payloads here carry no "id" key)
provider_event_id(pl) == IF pl.event_id # NoneStr THEN pl.event_id ELSE pl.payment_id

\* a handler that never finds the event recorded
never_processed(eid) == FALSE

\* db.query(WebhookEvent).filter(provider_event_id == str(provider_event_id)).one_or_none()
already_processed(eid) ==
    \E i \in DOMAIN webhook_events : webhook_events[i].provider_event_id = eid

\* Payment by id = order_id, else by provider_payment_id = payment_id; 0: none
find_payment(pl) ==
    IF pl.order_id \in DOMAIN payments THEN pl.order_id
    ELSE IF pl.payment_id # NoneStr /\
            \E i \in DOMAIN payments : payments[i].provider_payment_id = pl.payment_id
    THEN Min({i \in DOMAIN payments : payments[i].provider_payment_id = pl.payment_id})
    ELSE 0

is_success(event_type) ==
    event_type \in {"payment.succeeded", "payment.completed", "charge.succeeded"}

is_refund(event_type) == event_type \in {"payment.refunded", "refund.succeeded"}

\* wallet.balance of the user's row, 0 when there is no row
balance(w, u) == IF u \in DOMAIN w THEN w[u] ELSE 0

\* the wallet row is created at 0.0 when missing, then balance += amount
credit(w, u, amount) == (u :> balance(w, u) + amount) @@ w

\* a handler that commits the payment and forgets the event
record_nothing(evs, provider, eid) == evs

\* db.add(WebhookEvent(...)); db.commit(); a clash with the unique provider_event_id
\* is rolled back (str(None) is "None")
record_event(evs, provider, eid) ==
    IF \E i \in DOMAIN evs : evs[i].provider_event_id = eid THEN evs
    ELSE Append(evs, [provider |-> provider, provider_event_id |-> eid])

\* hmac.new(secret, body, sha256).hexdigest(): a digest that tells apart any two
\* secrets and any two bodies
hmac(secret, body) == <<"sha256", secret, body>>

\* signature_header.split("=")[-1]: the digest, with or without a prefix "sha256="
sig_val(header) == header.value

\* a request without X-Signature, x-signature and Stripe-Signature
NoHeader == [scheme |-> NoneStr, value |-> NoneStr]

\* The checks made before the payload is looked at: the body parses, and when
\* PAYMENT_WEBHOOK_SECRET (NoneStr: unset) and a signature header are both there,
\* the digest of the header equals the HMAC of the body.
verified(parses, secret, header, body) ==
    /\ parses
    /\ (secret # NoneStr /\ header.scheme # NoneStr) =>
          sig_val(header) = hmac(secret, body)

\* The request arrives and the handler waits for its body; secret is the value of
\* PAYMENT_WEBHOOK_SECRET, header the signature header of the request.
payments_webhook_request(t, pl, parses, secret, header) ==
    /\ Idle(t) /\ Accept(t)
    /\ Goto(t, "wh_body", [op |-> "payments_webhook", payload |-> pl,
                           body_ok |-> verified(parses, secret, header, pl),
                           secret |-> secret, signature |-> header])
    /\ UNCHANGED <<store, wsvars, cfg, payvars>>

\* The same with no PAYMENT_WEBHOOK_SECRET and no signature header.  body_ok: the
\* body parses as JSON.
payments_webhook_receive(t, pl, body_ok) ==
    payments_webhook_request(t, pl, body_ok, NoneStr, NoHeader)

\* From the body to the first MongoDB call, with no await in between: the 400s, the
\* idempotency check, the payment lookup, the status change, the wallet credit, the
\* ledger row and the WebhookEvent row.
payments_webhook_process(t) ==
    /\ pc[t] = "wh_body"
    /\ LET l == loc[t]
           pl == l.payload
           eid == provider_event_id(pl)
           p == find_payment(pl)
           r == [op |-> "payments_webhook", status |-> 200, already_processed |-> FALSE,
                 event |-> eid]
       IN IF ~l.body_ok
          THEN /\ Return(t, [r EXCEPT !.status = 400])
               /\ UNCHANGED <<sql, applied>>
          ELSE IF eid # NoneStr /\ already_processed(eid)
          THEN /\ Return(t, [r EXCEPT !.already_processed = TRUE])
               /\ UNCHANGED <<sql, applied>>
          ELSE IF p = 0
          THEN /\ Return(t, r)
               /\ UNCHANGED <<sql, applied>>
          ELSE IF is_success(pl.event_type)
          THEN /\ payments' = [payments EXCEPT ![p].status = "PAID",
                                               ![p].provider_payment_id = pl.payment_id]
               /\ wallets' = credit(wallets, payments[p].seller_id, payments[p].amount)
               /\ ledger' = Append(ledger, [user_id |-> payments[p].seller_id,
                                            change |-> payments[p].amount,
                                            reason |-> "sale", related_payment_id |-> p])
               /\ webhook_events' = record_event(webhook_events, provider_of(pl), eid)
               /\ applied' = Append(applied, [event |-> eid, provider |-> provider_of(pl),
                                              payment |-> p, status |-> "PAID"])
               /\ Goto(t, "wh_find", l @@ [payment |-> p, status |-> "PAID", result |-> r])
          ELSE IF is_refund(pl.event_type)
          THEN /\ payments' = [payments EXCEPT ![p].status = "REFUNDED"]
               /\ webhook_events' = record_event(webhook_events, provider_of(pl), eid)
               /\ applied' = Append(applied, [event |-> eid, provider |-> provider_of(pl),
                                              payment |-> p, status |-> "REFUNDED"])
               /\ Goto(t, "wh_find", l @@ [payment |-> p, status |-> "REFUNDED",
                                           result |-> r])
               /\ UNCHANGED <<wallets, ledger>>
          ELSE /\ Return(t, r)
               /\ UNCHANGED <<sql, applied>>
    /\ UNCHANGED <<store, clock, wsvars, cfg, emitted>>

\* res = find_one({"paymentId": p.id}): no message, nothing more to do
payments_webhook_find(t) ==
    /\ pc[t] = "wh_find"
    /\ LET l == loc[t]
           res == {i \in DOMAIN messages : messages[i].paymentId = l.payment}
       IN IF ~mongo_enabled \/ res = {}
          THEN Return(t, l.result)
          ELSE Goto(t, "wh_update", l @@ [res |-> Min(res)])
    /\ UNCHANGED <<store, clock, wsvars, cfg, payvars>>

\* a handler that stores the transition as one more message
add_status(msgs, id, status, info) ==
    Append(msgs, [providerInfo |-> info] @@ [msgs[id] EXCEPT !.status = status])

\* update_one({"_id": id}, {"$set": {"status": status, "providerInfo": payload}})
set_status(msgs, id, status, info) ==
    [msgs EXCEPT ![id] = [providerInfo |-> info] @@ [@ EXCEPT !.status = status]]

\* update_one: $set status and providerInfo on the message; then the payment.updated
\* broadcast starts on the conversation of the message
payments_webhook_update(t) ==
    /\ pc[t] = "wh_update"
    /\ LET l == loc[t]
           c == messages[l.res].convoId
           env == [type |-> "payment.updated", convoId |-> c, id |-> l.res,
                   paymentId |-> l.payment, status |-> l.status,
                   providerInfo |-> l.payload]
       IN /\ messages' = set_status(messages, l.res, l.status, l.payload)
          /\ emitted' = Append(emitted, env)
          /\ broadcast(t, c, env, l.result)
    /\ UNCHANGED <<conversations, clock, wsvars, cfg, sql, applied>>

\* ------------------------------------------- completion without a webhook

\* _credit_seller and the inline copies of it: the ledger row of a credit
ledger_row(p, reason) ==
    [user_id |-> payments[p].seller_id, change |-> payments[p].amount,
     reason |-> reason, related_payment_id |-> p]

\* sandbox_complete: 404 for an unknown order, nothing to do for one that is PAID,
\* otherwise status PAID, the seller credited, a ledger row "sandbox_sale"
sandbox_complete(t, order_id) ==
    /\ Idle(t) /\ Accept(t)
    /\ LET r == [op |-> "sandbox_complete", status |-> 200, order_id |-> order_id,
                 already_paid |-> FALSE]
       IN IF order_id \notin DOMAIN payments
          THEN /\ Return(t, [r EXCEPT !.status = 404])
               /\ UNCHANGED sql
          ELSE IF payments[order_id].status = "PAID"
          THEN /\ Return(t, [r EXCEPT !.already_paid = TRUE])
               /\ UNCHANGED sql
          ELSE /\ payments' = [payments EXCEPT ![order_id].status = "PAID"]
               /\ wallets' = credit(wallets, payments[order_id].seller_id,
                                    payments[order_id].amount)
               /\ ledger' = Append(ledger, ledger_row(order_id, "sandbox_sale"))
               /\ UNCHANGED webhook_events
               /\ Return(t, r)
    /\ UNCHANGED <<store, wsvars, cfg, applied, emitted>>

\* get_wallet: the balance of the user's row, 0.0 when there is none
get_wallet(t, user_id) ==
    /\ Idle(t) /\ Accept(t)
    /\ Return(t, [op |-> "get_wallet", status |-> 200, user_id |-> user_id,
                  balance |-> balance(wallets, user_id)])
    /\ UNCHANGED <<store, wsvars, cfg, payvars>>

\* a check that lets every payout through
always_funded(w, u, amount) == FALSE

\* not w or (w.balance or 0.0) < float(amount)
insufficient(w, u, amount) == u \notin DOMAIN w \/ w[u] < amount

\* a row that records the payout as a credit
payout_row_credit(u, amount) ==
    [user_id |-> u, change |-> amount, reason |-> "payout", related_payment_id |-> 0]

\* Ledger(user_id, change=-float(amount), reason="payout"): no related payment
payout_row(u, amount) ==
    [user_id |-> u, change |-> 0 - amount, reason |-> "payout", related_payment_id |-> 0]

\* payout_to_user: 400 "insufficient funds" without a wallet or with a balance
\* under the amount; otherwise the balance goes down by the amount and the ledger
\* gets a row "payout"
payout_to_user(t, user_id, amount) ==
    /\ Idle(t) /\ Accept(t)
    /\ LET r == [op |-> "payout", status |-> 200, user_id |-> user_id, amount |-> amount]
       IN IF insufficient(wallets, user_id, amount)
          THEN /\ Return(t, [r EXCEPT !.status = 400])
               /\ UNCHANGED sql
          ELSE /\ wallets' = [wallets EXCEPT ![user_id] = @ - amount]
               /\ ledger' = Append(ledger, payout_row(user_id, amount))
               /\ UNCHANGED <<payments, webhook_events>>
               /\ Return(t, r)
    /\ UNCHANGED <<store, wsvars, cfg, applied, emitted>>

\* kakao_approve_pg_redirect up to the POST to Kakao.  args_ok: KAKAO_ADMIN_KEY is
\* set and the redirect carries order_id and pg_token (400 otherwise)
kakao_approve(t, order_id, args_ok) ==
    /\ Idle(t) /\ Accept(t)
    /\ LET r == [op |-> "kakao_approve", status |-> 307, order_id |-> order_id]
       IN IF ~args_ok THEN Return(t, [r EXCEPT !.status = 400])
          ELSE IF order_id \notin DOMAIN payments THEN Return(t, [r EXCEPT !.status = 404])
          ELSE Goto(t, "ka_post", [op |-> "kakao_approve", payment |-> order_id,
                                   result |-> r])
    /\ UNCHANGED <<store, wsvars, cfg, payvars>>

\* the POST to /v1/payment/approve came back: 502 when it failed, otherwise status
\* PAID and _credit_seller, whatever the status was, and the redirect
kakao_approve_done(t, approved) ==
    /\ pc[t] = "ka_post"
    /\ LET l == loc[t]
           p == l.payment
       IN IF ~approved
          THEN /\ Return(t, [l.result EXCEPT !.status = 502])
               /\ UNCHANGED sql
          ELSE /\ payments' = [payments EXCEPT ![p].status = "PAID"]
               /\ wallets' = credit(wallets, payments[p].seller_id, payments[p].amount)
               /\ ledger' = Append(ledger, ledger_row(p, "sale"))
               /\ UNCHANGED webhook_events
               /\ Return(t, l.result)
    /\ UNCHANGED <<store, clock, wsvars, cfg, applied, emitted>>

\* ---------------------------------------------------------------- machine

Init(s, n) ==
    /\ conversations = <<>>
    /\ messages = <<>>
    /\ clock = 1
    /\ pc = [a \in Agents |-> IF a \in Tasks THEN "idle" ELSE "ws_new"]
    /\ loc = [a \in Agents |-> NoLoc]
    /\ ret = [a \in Agents |-> NoRet]
    /\ active = <<>>
    /\ alive = [w \in Sockets |-> TRUE]
    /\ wslog = [w \in Sockets |-> <<>>]
    /\ payments = <<>>
    /\ wallets = <<>>
    /\ ledger = <<>>
    /\ webhook_events = <<>>
    /\ applied = <<>>
    /\ emitted = <<>>
    /\ sched = s
    /\ budget = n

\* The conversation store under overlapping requests.
NextChat ==
    \E t \in Tasks :
        \/ get_or_create_find(t, <<2, 1>>, NoneStr)
        \/ get_or_create_write(t)
        \/ \E s \in Users : send_message_find(t, 1, s, "hi", NoneStr)
        \/ send_message_insert(t)
        \/ send_message_update(t)
        \/ \E r \in {1, 2} : mark_read(t, 1, r)

SpecChat == Init("concurrent", MaxOps) /\ [][NextChat]_vars

\* Overlapping send-message requests, and no mark-read.
NextSend ==
    \E t \in Tasks :
        \/ get_or_create_find(t, <<2, 1>>, NoneStr)
        \/ get_or_create_write(t)
        \/ \E s \in {1, 2} : send_message_find(t, 1, s, "hi", NoneStr)
        \/ send_message_insert(t)
        \/ send_message_update(t)

SpecSend == Init("concurrent", MaxOps) /\ [][NextSend]_vars

\* The conversation store with its requests served one after another, and one
\* subscriber on the conversation.
NextSeq ==
    \/ \E t \in Tasks :
        \/ get_or_create_find(t, <<2, 1>>, NoneStr)
        \/ get_or_create_write(t)
        \/ \E s \in Users : send_message_find(t, 1, s, "hi", NoneStr)
        \/ send_message_insert(t)
        \/ send_message_update(t)
        \/ \E s \in Users, ok \in BOOLEAN : upload_image_find(t, 1, s, ok)
        \/ \E c \in {1, 2}, r \in Users : mark_read(t, c, r)
        \/ broadcast_send(t)
    \/ chat_ws_connect(1, 1, 1)

SpecSeq == Init("serial", MaxOps) /\ [][NextSeq]_vars

\* Two conversations filled one message at a time, and pages read from them.
NextList ==
    \E t \in Tasks :
        \/ \E ps \in {<<2, 1>>, <<1, 3>>} : get_or_create_find(t, ps, NoneStr)
        \/ get_or_create_write(t)
        \/ \E c \in {1, 2} : send_message_find(t, c, 1, "hi", NoneStr)
        \/ send_message_insert(t)
        \/ send_message_update(t)
        \/ \E c \in {1, 2}, b \in 0..MaxOps, n \in 1..MaxLimit : list_messages(t, c, b, n)

SpecList == Init("serial", MaxOps + 2) /\ [][NextList]_vars

\* The connection registry: sockets connect, send typing frames, break and close
\* while broadcasts are under way.
NextWS ==
    \/ \E w \in Sockets :
        \/ chat_ws_connect(w, 1, 0)
        \/ \E type \in {"typing", "ping"} : chat_ws_receive(w, type, 1)
        \/ chat_ws_close(w)
        \/ break_transport(w)
    \/ \E a \in Agents : broadcast_send(a)

SpecWS == Init("concurrent", MaxFrames) /\ [][NextWS]_vars

\* a webhook payload
Payload(e, type, order) ==
    [provider |-> "kakao", event_id |-> e, event_type |-> type, order_id |-> order,
     payment_id |-> NoneStr]

\* Orders and provider webhooks, each request after the previous one has returned;
\* one socket listens on conversation 1.
PayloadsSeq ==
    {Payload(e, type, 1) : e \in {"e1", "e2"},
                           type \in {"payment.succeeded", "payment.refunded"}}
      \cup {Payload("e1", "payment.succeeded", 2), Payload("e3", "payment.failed", 1)}

NextPay ==
    \/ \E t \in Tasks :
        \/ get_or_create_find(t, <<1, 2>>, NoneStr)
        \/ get_or_create_write(t)
        \/ \E b \in {1, 3}, c \in {0, 1} : create_order(t, b, IF b = 1 THEN 2 ELSE 3, 5, c)
        \/ create_order_find(t)
        \/ create_order_insert(t)
        \/ create_order_update(t)
        \/ \E pl \in PayloadsSeq : payments_webhook_receive(t, pl, TRUE)
        \/ payments_webhook_receive(t, Payload("e1", "payment.succeeded", 1), FALSE)
        \/ payments_webhook_process(t)
        \/ payments_webhook_find(t)
        \/ payments_webhook_update(t)
    \/ chat_ws_connect(1, 1, 1)
    \/ \E a \in Agents : broadcast_send(a)

SpecPay == Init("serial", MaxOps) /\ [][NextPay]_vars

\* Deliveries of the provider that overlap, with each other and with the order's
\* creation.
NextPayRace ==
    \E t \in Tasks :
        \/ \E c \in {0, 1} : create_order(t, 1, 2, 5, c)
        \/ create_order_find(t)
        \/ create_order_insert(t)
        \/ create_order_update(t)
        \/ \E e \in {"e1", "e2"} :
              payments_webhook_receive(t, Payload(e, "payment.succeeded", 1), TRUE)
        \/ payments_webhook_process(t)
        \/ payments_webhook_find(t)
        \/ payments_webhook_update(t)

SpecPayRace == Init("concurrent", MaxOps - 1) /\ [][NextPayRace]_vars

\* Orders, wallet reads and completions in the test checkout, one request after
\* the other.
NextOrder ==
    \/ \E t \in Tasks :
        \/ get_or_create_find(t, <<1, 2>>, NoneStr)
        \/ get_or_create_write(t)
        \/ \E b \in {1, 3}, c \in {0, 1} : create_order(t, b, IF b = 1 THEN 2 ELSE 3, 5, c)
        \/ create_order_find(t)
        \/ create_order_insert(t)
        \/ create_order_update(t)
        \/ \E o \in {1, 2} : sandbox_complete(t, o)
        \/ \E u \in {2, 3} : get_wallet(t, u)
    \/ chat_ws_connect(1, 1, 1)
    \/ \E a \in Agents : broadcast_send(a)

SpecOrder == Init("serial", MaxOps) /\ [][NextOrder]_vars

\* Every way a payment changes status, one request after the other: webhooks of two
\* providers, the test checkout, the Kakao approval redirect.
PayloadsOps ==
    {[provider |-> pr, event_id |-> e, event_type |-> type, order_id |-> o,
      payment_id |-> NoneStr] :
        pr \in {"kakao", "toss"}, e \in {"e1", "e2"},
        type \in {"payment.succeeded", "payment.refunded"}, o \in {1, 2}}

NextPayOps ==
    \/ \E t \in Tasks :
        \/ \E c \in {0, 1} : create_order(t, 1, 2, 5, c)
        \/ create_order_find(t)
        \/ create_order_insert(t)
        \/ create_order_update(t)
        \/ \E pl \in PayloadsOps : payments_webhook_receive(t, pl, TRUE)
        \/ payments_webhook_process(t)
        \/ payments_webhook_find(t)
        \/ payments_webhook_update(t)
        \/ \E o \in {1, 2} : sandbox_complete(t, o)
        \/ \E ok \in BOOLEAN : kakao_approve(t, 1, ok)
        \/ \E ok \in BOOLEAN : kakao_approve_done(t, ok)
        \/ get_wallet(t, 2)
    \/ chat_ws_connect(1, 1, 1)
    \/ \E a \in Agents : broadcast_send(a)

SpecPayOps == Init("serial", MaxOps) /\ [][NextPayOps]_vars

\* Every handler that notifies the subscribers of a conversation, one request after
\* the other, with one socket on the conversation.
NextNotify ==
    \/ \E t \in Tasks :
        \/ get_or_create_find(t, <<1, 2>>, NoneStr)
        \/ get_or_create_write(t)
        \/ send_message_find(t, 1, 1, "hi", NoneStr)
        \/ send_message_insert(t)
        \/ send_message_update(t)
        \/ mark_read(t, 1, 2)
        \/ create_order(t, 1, 2, 5, 1)
        \/ create_order_find(t)
        \/ create_order_insert(t)
        \/ create_order_update(t)
        \/ payments_webhook_receive(t, Payload("e1", "payment.succeeded", 1), TRUE)
        \/ payments_webhook_process(t)
        \/ payments_webhook_find(t)
        \/ payments_webhook_update(t)
    \/ chat_ws_connect(1, 1, 1)
    \/ \E a \in Agents : broadcast_send(a)

SpecNotify == Init("serial", MaxOps + 1) /\ [][NextNotify]_vars

\* Orders placed in one conversation by overlapping requests, announced to the
\* sockets of the conversation.
NextFanout ==
    \/ \E t \in Tasks :
        \/ create_order(t, 1, 2, 5, 1)
        \/ create_order_find(t)
        \/ create_order_insert(t)
        \/ create_order_update(t)
    \/ \E w \in Sockets : chat_ws_connect(w, 1, 0)
    \/ \E a \in Agents : broadcast_send(a)

SpecFanout == Init("concurrent", MaxOps - 2) /\ [][NextFanout]_vars

\* Messages of every shape the request model admits: text and imageUrl are both
\* optional strings.
NextText ==
    \E t \in Tasks :
        \/ get_or_create_find(t, <<1, 2>>, NoneStr)
        \/ get_or_create_write(t)
        \/ \E text \in {"hi", "", NoneStr}, imageUrl \in {"/images/a.jpg", NoneStr} :
              send_message_find(t, 1, 1, text, imageUrl)
        \/ \E ok \in BOOLEAN : upload_image_find(t, 1, 2, ok)
        \/ send_message_insert(t)
        \/ send_message_update(t)

SpecText == Init("serial", MaxOps) /\ [][NextText]_vars

\* The frames a client may send on its socket: typing and stop_typing with or
\* without a user id, on a socket opened with or without one, other JSON frames, and
\* frames that are not JSON.
NextFrames ==
    \/ \E w \in Sockets :
        \/ \E uid \in {0, 1} : chat_ws_connect(w, 1, uid)
        \/ \E type \in {"typing", "stop_typing", "ping"}, userId \in {0, 2} :
              chat_ws_receive(w, type, userId)
        \/ chat_ws_bad_frame(w)
        \/ chat_ws_closing(w)
    \/ \E a \in Agents : broadcast_send(a)

SpecFrames == Init("concurrent", MaxFrames) /\ [][NextFrames]_vars

\* Webhooks of a deployment with a webhook secret: requests signed with the secret,
\* signed with another key, and not signed at all.
Secret == "whsec"

\* the signature headers made with key k: the digest of the payload, bare or
\* prefixed, and the digest of another payload
Headers(k, pl) ==
    {[scheme |-> sc, value |-> hmac(k, b)] :
        sc \in {"", "sha256"}, b \in {pl, Payload("e2", "payment.succeeded", 1)}}

NextSigned ==
    \/ \E t \in Tasks :
        \/ \E c \in {0, 1} : create_order(t, 1, 2, 5, c)
        \/ create_order_find(t)
        \/ create_order_insert(t)
        \/ create_order_update(t)
        \/ \E pl \in PayloadsSeq, k \in {Secret, "other"} : \E h \in Headers(k, pl) :
              payments_webhook_request(t, pl, TRUE, Secret, h)
        \/ \E pl \in PayloadsSeq : payments_webhook_request(t, pl, TRUE, Secret, NoHeader)
        \/ payments_webhook_process(t)
        \/ payments_webhook_find(t)
        \/ payments_webhook_update(t)
    \/ chat_ws_connect(1, 1, 1)
    \/ \E a \in Agents : broadcast_send(a)

SpecSigned == Init("serial", MaxOps - 1) /\ [][NextSigned]_vars

\* Wallets and the ledger under everything that moves money: completions by
\* webhook, test checkout and Kakao approval, refunds, and payouts of amounts
\* below, at and above the balance, zero and negative ones included.
Amounts == {0 - 2, 0, 3, 5, 7}

NextWallet ==
    \E t \in Tasks :
        \/ \E sl \in {2, 3} : create_order(t, 1, sl, 5, 0)
        \/ \E e \in {"e1", "e2"}, type \in {"payment.succeeded", "payment.refunded"} :
              payments_webhook_receive(t, Payload(e, type, 1), TRUE)
        \/ payments_webhook_process(t)
        \/ payments_webhook_find(t)
        \/ \E o \in {1, 2} : sandbox_complete(t, o)
        \/ \E ok \in BOOLEAN : kakao_approve(t, 1, ok)
        \/ \E ok \in BOOLEAN : kakao_approve_done(t, ok)
        \/ \E u \in {2, 3}, amount \in Amounts : payout_to_user(t, u, amount)
        \/ get_wallet(t, 2)

SpecWallet == Init("serial", MaxOps) /\ [][NextWallet]_vars

\* Sockets on two conversations: typing frames are broadcast while the transport
\* of one socket may break.
NextScope ==
    \/ \E w \in Sockets :
        \/ \E c \in {1, 2} : chat_ws_connect(w, c, 1)
        \/ chat_ws_receive(w, "typing", 0)
    \/ break_transport(1)
    \/ \E a \in Agents : broadcast_send(a)

SpecScope == Init("concurrent", MaxFrames) /\ [][NextScope]_vars

\* get-or-create alone, its callers racing inside the store.
GocInputs == {<<<<1, 2>>, NoneStr>>, <<<<2, 1>>, "">>, <<<<2, 1>>, "L1">>, <<<<1>>, NoneStr>>}

NextGoc ==
    \E t \in Tasks :
        \/ \E i \in GocInputs : get_or_create_find(t, i[1], i[2])
        \/ get_or_create_write(t)

SpecGoc == Init("concurrent", MaxOps) /\ [][NextGoc]_vars

\* ------------------------------------------------------------------ claims

GocOk(t) == ret[t].op = "get_or_create" /\ ret[t].status = 200
PairOf(ps) == {ps[1], ps[2]}

\* C1: get-or-create calls for one participant pair (in either order) and one listing
\* id, racing inside the store, leave one conversation document for that pair and
\* listing, and every call returns 200 with the id of that document.
C1_GetOrCreateOnce ==
    /\ \A i, j \in DOMAIN conversations :
          (conversations[i].participantsHash = conversations[j].participantsHash
             /\ conversations[i].listingId = conversations[j].listingId) => i = j
    /\ \A t \in Tasks :
          /\ (ret[t].op = "get_or_create" /\ Len(ret[t].participants) = 2) => GocOk(t)
          /\ GocOk(t) =>
                /\ ret[t].id \in DOMAIN conversations
                /\ PairOf(conversations[ret[t].id].participants) = PairOf(ret[t].participants)
                /\ conversations[ret[t].id].listingId = ret[t].listingId
    /\ \A t, u \in Tasks :
          (GocOk(t) /\ GocOk(u) /\ PairOf(ret[t].participants) = PairOf(ret[u].participants)
             /\ ret[t].listingId = ret[u].listingId) => ret[t].id = ret[u].id

\* two calls for the same pair, given in opposite orders, both ran their query
\* before the document existed, and both have returned
C1_Witness ==
    /\ GocOk(1) /\ GocOk(2)
    /\ ret[1].participants = <<1, 2>> /\ ret[2].participants = <<2, 1>>
    /\ ret[1].found = 0 /\ ret[2].found = 0

Quiescent == \A t \in Tasks : Idle(t)
Others(conv, s) == PairOf(conv.participants) \ {s}

\* C2: served one after another, every send-message and attachment upload by S adds
\* exactly one to the unread count of the other participant and leaves every other
\* count, S's own included, as it was: k sends by A raise B's count by k.
C2_SendAddsOneUnread ==
    [][\A t \in Tasks :
          send_message_update(t) =>
            LET c == loc[t].convoId
                before == conversations[c].unread
                after == conversations'[c].unread
            IN /\ DOMAIN after = DOMAIN before
               /\ \A p \in DOMAIN after :
                     after[p] = IF p \in Others(conversations[c], loc[t].senderId)
                                THEN before[p] + 1 ELSE before[p]]_vars

\* user 1 has sent twice in a row to user 2, who never read: 2 unread for user 2
C2_Witness ==
    /\ Quiescent /\ Len(messages) = 2 /\ Len(conversations) = 1
    /\ \A i \in 1..2 : messages[i].senderId = 1
    /\ conversations[1].unread[2] = 2 /\ conversations[1].unread[1] = 0

\* the messages of conversation c that user u did not send
NotSentBy(c, u) == {i \in DOMAIN messages : messages[i].convoId = c /\ messages[i].senderId # u}

\* C3: once all overlapping send-message handlers have returned, with no mark-read
\* issued, each participant's unread count equals the number of stored messages of
\* the conversation sent by someone else.
C3_UnreadEqualsMessages ==
    Quiescent =>
        \A c \in DOMAIN conversations :
            \A u \in PairOf(conversations[c].participants) :
                conversations[c].unread[u] = Cardinality(NotSentBy(c, u))

\* C4: a send-message by S does not change S's own unread count: when a mark-read by
\* S has completed, nothing else is in progress and S's count is 0, the last store
\* access of S's send-message leaves the count at 0, so that it is 0 once both
\* handlers have returned.
C4_SendKeepsOwnUnread ==
    [][\A t \in Tasks :
          (/\ send_message_update(t)
           /\ \A u \in Tasks \ {t} : Idle(u)
           /\ \E u \in Tasks \ {t} :
                 /\ ret[u].op = "mark_read" /\ ret[u].status = 200
                 /\ ret[u].convoId = loc[t].convoId /\ ret[u].readerId = loc[t].senderId
           /\ conversations[loc[t].convoId].unread[loc[t].senderId] = 0)
          => /\ Quiescent'
             /\ conversations'[loc[t].convoId].unread[loc[t].senderId] = 0]_vars

\* C5: mark-read by R on an existing conversation returns 200, sets unread[R] to 0 and
\* touches nothing else; when unread[R] is already 0 (a repeated call, no send in
\* between) the stored state stays identical.
C5_MarkReadIdempotent ==
    [][\A t \in Tasks, c \in DOMAIN conversations, r \in Users :
          mark_read(t, c, r) =>
            /\ (IF pc'[t] = "idle" THEN ret'[t] ELSE loc'[t].result).status = 200
            /\ messages' = messages
            /\ r \in DOMAIN conversations'[c].unread /\ conversations'[c].unread[r] = 0
            /\ conversations' =
                 [conversations EXCEPT ![c].unread =
                     [p \in DOMAIN @ \cup {r} |-> IF p = r THEN 0 ELSE @[p]]]
            /\ (r \in DOMAIN conversations[c].unread /\ conversations[c].unread[r] = 0)
                 => conversations' = conversations]_vars

\* user 2 had an unread message; the last request was a mark-read by user 2 that
\* returned 200 on a count that was already 0
C5_Witness ==
    /\ Quiescent /\ Len(messages) = 1 /\ clock = 5
    /\ ret[1] = [op |-> "mark_read", status |-> 200, convoId |-> 1, readerId |-> 2]
    /\ conversations[1].unread[2] = 0

\* C6: send-message and attachment upload with a senderId that is not a participant
\* of the existing conversation return 403 at once: no message inserted, the
\* conversation untouched, nothing broadcast.
C6_ForbiddenSender ==
    [][\A t \in Tasks, c \in DOMAIN conversations, s \in Users :
          (/\ ~(s \in PairOf(conversations[c].participants))
           /\ \/ send_message_find(t, c, s, "hi", NoneStr)
              \/ \E ok \in BOOLEAN : upload_image_find(t, c, s, ok))
          => /\ pc'[t] = "idle" /\ ret'[t].status = 403
             /\ UNCHANGED <<conversations, messages, active, wslog>>]_vars

\* a stranger was refused while the conversation had a message and a subscriber
C6_Witness ==
    /\ ret[1].op \in {"send_message", "upload_image"} /\ ret[1].status = 403
    /\ ret[1].senderId = 3
    /\ Len(messages) > 0 /\ subscribers(active, 1) # {}

\* the ids of the messages of conversation c older than beforeId (0: no bound)
Older(c, beforeId) ==
    {i \in DOMAIN messages : messages[i].convoId = c /\ (beforeId = 0 \/ i < beforeId)}

\* all pages of conversation c, read backwards from the newest, each asked for with
\* the first id of the page before it, laid end to end
RECURSIVE Pages(_, _, _)
Pages(c, beforeId, limit) ==
    LET page == list_messages_items(c, beforeId, limit)
    IN IF page = <<>> THEN <<>> ELSE Pages(c, page[1], limit) \o page

Ascending(s) == \A i, j \in 1..Len(s) : i < j => s[i] < s[j]
Range(s) == {s[i] : i \in 1..Len(s)}

\* C10: list-messages returns, in ascending id order, the `limit` messages with the
\* largest ids (all of them when there are fewer) among those of the conversation
\* older than beforeId; paging backwards returns every message once, in order.
C10_Pagination ==
    \A c \in {1, 2}, limit \in 1..MaxLimit :
        /\ \A b \in 0..(Len(messages) + 1) :
              LET page == list_messages_items(c, b, limit)
                  old == Older(c, b)
              IN /\ Ascending(page)
                 /\ Range(page) \subseteq old
                 /\ Len(page) = IF Cardinality(old) < limit THEN Cardinality(old) ELSE limit
                 /\ \A x \in Range(page), y \in old \ Range(page) : y < x
        /\ LET all == Pages(c, 0, limit)
           IN Ascending(all) /\ Range(all) = Older(c, 0)

\* a second page was served: the two messages just older than the cursor, in
\* ascending order, an older one left for the next page
C10_Witness ==
    /\ ret[1].op = "list_messages" /\ ret[1].beforeId = 4 /\ ret[1].limit = 2
    /\ ret[1].items = <<2, 3>>
    /\ Len(messages) = 4 /\ \A i \in 1..4 : messages[i].convoId = ret[1].convoId

\* C9: a send that fails during a broadcast on C removes only the failed subscriber:
\* the others stay registered (a broadcast starts from all registered subscribers),
\* the loop goes on to the rest of its list, and when the broadcast returns it has
\* tried every subscriber it started with and none of the failed ones is registered.
C9_BroadcastIsolation ==
    [][\A a \in Agents :
          /\ (pc[a] # "bcast" /\ pc'[a] = "bcast") =>
                /\ loc'[a].snap = subscribers(active, loc'[a].convoId)
                /\ Range(loc'[a].conns) = loc'[a].snap
          /\ broadcast_send(a) =>
                LET l == loc[a]
                    w == Head(l.conns)
                    tried == l.tried \cup {w}
                    failed == IF can_send(w) THEN l.failed ELSE l.failed \cup {w}
                IN /\ can_send(w) => wslog'[w] = Append(wslog[w], l.env)
                   /\ \A c \in DOMAIN active :
                        subscribers(active', c) =
                          IF c = l.convoId /\ ~can_send(w) THEN active[c] \ {w} ELSE active[c]
                   /\ Tail(l.conns) # <<>> =>
                        pc'[a] = "bcast" /\ loc'[a].conns = Tail(l.conns)
                   /\ pc'[a] # "bcast" =>
                        /\ tried = l.snap
                        /\ failed \cap subscribers(active', l.convoId) = {}]_vars

\* socket 1 got one envelope and then lost its transport; a later broadcast reached
\* socket 2 and dropped socket 1, whose own coroutine has not noticed yet
C9_Witness ==
    /\ ~alive[1] /\ pc[WsTask(1)] = "ws_recv" /\ pc[WsTask(2)] = "ws_recv"
    /\ 1 \in DOMAIN active /\ active[1] = {2}
    /\ loc[WsTask(1)].convoId = 1
    /\ Len(wslog[1]) = 1 /\ Len(wslog[2]) = 2

\* the credits webhook deliveries of event e have made
Credits(e) == {i \in DOMAIN applied : applied[i].event = e /\ applied[i].status = "PAID"}

\* the payment.updated envelopes emitted for deliveries of event e
Updates(e) ==
    {i \in DOMAIN emitted :
        /\ emitted[i].type = "payment.updated"
        /\ provider_event_id(emitted[i].providerInfo) = e}

\* a message of the chat store is linked to the payment event e was applied to
Linked(e) ==
    \E i \in Credits(e), m \in DOMAIN messages : messages[m].paymentId = applied[i].payment

\* A payment-succeeded event with an id, for a known order, is handled, no request
\* overlapping.  The delivery that finds no trace of the event credits the seller
\* once: one wallet increase by the amount, one ledger row.  A delivery of an
\* event credited before changes nothing, emits nothing and answers
\* already_processed; by then the event has one credit and `updates` broadcasts.
WebhookTwice(t, always) ==
    LET pl == loc[t].payload
        e == provider_event_id(pl)
        p == find_payment(pl)
        seller == payments[p].seller_id
    IN (/\ payments_webhook_process(t)
        /\ loc[t].body_ok /\ is_success(pl.event_type) /\ e # NoneStr /\ p # 0) =>
          /\ (\A i \in DOMAIN applied : applied[i].event # e) =>
                /\ balance(wallets', seller) = balance(wallets, seller) + payments[p].amount
                /\ \A u \in DOMAIN wallets \ {seller} : wallets'[u] = wallets[u]
                /\ Len(ledger') = Len(ledger) + 1
                /\ ledger'[Len(ledger')].related_payment_id = p
                /\ Cardinality(Credits(e)') = 1
          /\ Credits(e) # {} =>
                /\ UNCHANGED <<sql, applied, emitted, store>>
                /\ pc'[t] = "idle"
                /\ ret'[t].status = 200 /\ ret'[t].already_processed
                /\ Cardinality(Credits(e)) = 1
                /\ Cardinality(Updates(e)) = IF always \/ Linked(e) THEN 1 ELSE 0

\* C7 as stated: the same payment-succeeded event delivered twice, one after the
\* other, credits the wallet once, writes one ledger row, emits exactly one
\* payment.updated broadcast, and the second delivery answers already_processed.
C7_Original == [][\A t \in Tasks : WebhookTwice(t, TRUE)]_vars

\* C7, amended: as above, except that the payment.updated broadcast is emitted exactly
\* once when the chat store holds a payment message linked to the order, and not at
\* all when it holds none.
C7_WebhookIdempotent == [][\A t \in Tasks : WebhookTwice(t, FALSE)]_vars

\* the second delivery of a credited event has just answered already_processed; the
\* order has a payment message, the socket on its conversation got payment.updated
C7_Witness ==
    /\ pc[1] = "idle" /\ ret[1].op = "payments_webhook" /\ ret[1].already_processed
    /\ Cardinality(Credits(ret[1].event)) = 1 /\ Linked(ret[1].event)
    /\ Cardinality(Updates(ret[1].event)) = 1
    /\ Len(ledger) = 1 /\ balance(wallets, 2) = 5
    /\ \E i \in DOMAIN wslog[1] : wslog[1][i].type = "payment.updated"

\* the credits among the applied events, in order
PaidLog == SelectSeq(applied, LAMBDA a : a.status = "PAID")

RECURSIVE SumChanges(_, _)
SumChanges(n, u) ==
    IF n = 0 THEN 0
    ELSE SumChanges(n - 1, u) + (IF ledger[n].user_id = u THEN ledger[n].change ELSE 0)

\* the deliveries that have gone through the synchronous part of the handler
Processed(t) ==
    \/ pc[t] \in {"wh_find", "wh_update"}
    \/ pc[t] = "bcast" /\ loc[t].result.op = "payments_webhook"
    \/ pc[t] = "idle" /\ ret[t].op = "payments_webhook" /\ ret[t].status = 200

EventOf(t) == IF pc[t] = "idle" THEN ret[t].event
              ELSE IF pc[t] = "bcast" THEN loc[t].result.event
              ELSE provider_event_id(loc[t].payload)

\* C8: however deliveries of one payment-succeeded event overlap, the event is
\* credited at most once, and exactly once as soon as one of its deliveries for the
\* known order has been processed; the ledger has one row per credit and every
\* wallet holds the sum of its ledger rows.
C8_OverlapCreditedOnce ==
    /\ \A i, j \in DOMAIN applied : applied[i].event = applied[j].event => i = j
    /\ Len(ledger) = Len(PaidLog)
    /\ \A i \in DOMAIN ledger : ledger[i].related_payment_id = PaidLog[i].payment
    /\ \A u \in Users : balance(wallets, u) = SumChanges(Len(ledger), u)
    /\ \A t \in Tasks :
          (Processed(t) /\ (pc[t] = "idle" => ret[t].already_processed)) =>
              Cardinality(Credits(EventOf(t))) = 1

\* two deliveries of one event overlap: the second has answered already_processed
\* while the first, having credited the seller, is still at its MongoDB calls
C8_Witness ==
    /\ pc[1] \in {"wh_find", "wh_update"}
    /\ pc[2] = "idle" /\ ret[2].op = "payments_webhook" /\ ret[2].already_processed
    /\ ret[2].event = provider_event_id(loc[1].payload)
    /\ Len(ledger) = 1 /\ balance(wallets, 2) = 5

\* the steps of create_order
CreateOrderStep(t) ==
    \/ \E b \in Users, sl \in Users, c \in {0, 1} : create_order(t, b, sl, 5, c)
    \/ create_order_find(t) \/ create_order_insert(t) \/ create_order_update(t)

\* C12: create-order answers 200 with the id of a payment stored as PENDING; none of
\* its steps changes a wallet or the ledger, so that get-wallet returns for the
\* seller the balance it had before (0 without a wallet row), until a completion runs.
C12_CreateOrderNoCredit ==
    [][\A t \in Tasks :
          /\ CreateOrderStep(t) =>
                /\ UNCHANGED <<wallets, ledger, webhook_events>>
                /\ \A p \in DOMAIN payments : payments'[p] = payments[p]
                /\ (pc'[t] = "idle") =>
                      /\ ret'[t].op = "create_order" /\ ret'[t].status = 200
                      /\ ret'[t].order_id \in DOMAIN payments'
                      /\ payments'[ret'[t].order_id].status = "PENDING"
          /\ (Idle(t) /\ CreateOrderStep(t)) =>
                /\ Len(payments') = Len(payments) + 1
                /\ payments'[Len(payments')].status = "PENDING"
          /\ (\E u \in Users : get_wallet(t, u)) =>
                /\ ret'[t].balance = balance(wallets, ret'[t].user_id)
                /\ (\A i \in DOMAIN ledger : ledger[i].user_id # ret'[t].user_id)
                      => ret'[t].balance = 0]_vars

\* seller 2 was paid for a first order; a second order was then created in the chat,
\* and the wallet read after it shows the balance of before, the order PENDING
C12_Witness ==
    /\ Len(payments) = 2 /\ payments[1].status = "PAID" /\ payments[2].status = "PENDING"
    /\ payments[2].seller_id = 2
    /\ \E m \in DOMAIN messages : messages[m].paymentId = 2
    /\ ret[1].op = "get_wallet" /\ ret[1].user_id = 2 /\ ret[1].balance = 5
    /\ Len(ledger) = 1

\* C11: PAID and REFUNDED are terminal: no step changes the status of a payment that
\* is PAID or REFUNDED, and a status only ever changes from PENDING to PAID or from
\* PENDING to REFUNDED.
C11_TerminalStatus ==
    [][\A p \in DOMAIN payments :
          payments'[p].status # payments[p].status =>
              /\ payments[p].status = "PENDING"
              /\ payments'[p].status \in {"PAID", "REFUNDED"}]_vars

\* C13: the idempotency key is the pair (provider, event id): a success event for a
\* known PENDING order, whose pair has not been recorded, is applied (the payment
\* becomes PAID and the seller is credited once), even when another provider has
\* already delivered an event with the same event id for a different order.
C13_KeyedOnProviderAndEvent ==
    [][\A t \in Tasks :
          LET pl == loc[t].payload
              p == find_payment(pl)
          IN (/\ payments_webhook_process(t)
              /\ loc[t].body_ok
              /\ provider_event_id(pl) # NoneStr
              /\ is_success(pl.event_type)
              /\ p # 0
              /\ payments[p].status = "PENDING"
              /\ \A i \in DOMAIN webhook_events :
                    ~(/\ webhook_events[i].provider = provider_of(pl)
                      /\ webhook_events[i].provider_event_id = provider_event_id(pl)))
             => /\ payments'[p].status = "PAID"
                /\ balance(wallets', payments[p].seller_id)
                      = balance(wallets, payments[p].seller_id) + payments[p].amount]_vars

\* the store, as the step leaves it, holds the mutation that envelope env announces
Stored(env) ==
    CASE env.type = "new_message" ->
            /\ env.id \in DOMAIN messages'
            /\ messages'[env.id].type = "chat"
            /\ messages'[env.id].convoId = env.convoId
            /\ messages'[env.id].senderId = env.senderId
            /\ conversations'[env.convoId].lastMessage.senderId = env.senderId
            /\ conversations'[env.convoId].lastMessage.at = messages'[env.id].at
      [] env.type = "read" ->
            /\ env.readerId \in DOMAIN conversations'[env.convoId].unread
            /\ conversations'[env.convoId].unread[env.readerId] = 0
      [] env.type = "payment.started" ->
            /\ env.paymentId \in DOMAIN payments'
            /\ env.id \in DOMAIN messages'
            /\ messages'[env.id].type = "payment"
            /\ messages'[env.id].paymentId = env.paymentId
            /\ env.convoId \in DOMAIN conversations' =>
                  conversations'[env.convoId].lastMessage.at = messages'[env.id].at
      [] env.type = "payment.updated" ->
            /\ env.id \in DOMAIN messages'
            /\ messages'[env.id].paymentId = env.paymentId
            /\ messages'[env.id].status = env.status
            /\ \E i \in DOMAIN applied :
                  applied[i].payment = env.paymentId /\ applied[i].status = env.status
      [] OTHER -> TRUE

\* the step in which agent a gives an envelope to the registry
HandsOver(a) == pc[a] # "bcast" /\ pc'[a] = "bcast"

\* C14: when a handler gives a new_message, read, payment.started or payment.updated
\* envelope to the registry, the store mutation that triggered it is complete: the
\* message is in the collection and the conversation carries it as last message, the
\* reader's unread counter is 0, the payment message exists (and is the last message
\* of its conversation, when there is one), the payment message has the announced
\* status.
C14_NotifyAfterStore ==
    [][\A a \in Agents : HandsOver(a) => Stored(loc'[a].env)]_vars

\* all four kinds of envelope have reached the socket
C14_Witness ==
    \A ty \in {"new_message", "read", "payment.started", "payment.updated"} :
        \E i \in DOMAIN wslog[1] : wslog[1][i].type = ty

\* the place of the broadcast call that carried envelope env among the calls the
\* payment handlers made (0: none of them carried it)
Invoked(env) ==
    LET at == {i \in DOMAIN emitted : emitted[i] = env}
    IN IF at = {} THEN 0 ELSE Min(at)

\* C15: a connection receives envelopes in the order in which their broadcast calls
\* were invoked: of two envelopes it has received, the one whose broadcast was invoked
\* first comes first, however the sends of overlapping broadcasts interleave.
C15_PerConnectionOrder ==
    \A w \in Sockets : \A i, j \in DOMAIN wslog[w] :
        (i < j /\ Invoked(wslog[w][i]) # 0 /\ Invoked(wslog[w][j]) # 0)
            => Invoked(wslog[w][i]) < Invoked(wslog[w][j])

\* C16: the registry never maps a conversation id to an empty set of connections,
\* whatever the interleaving of connects, closes, broken transports and broadcasts
\* (an id is in the registry exactly when a connection is registered under it).
C16_NoEmptyEntry == \A c \in DOMAIN active : active[c] # {}

\* both sockets were registered and have received; one was dropped by a failed send
\* and the other has closed, and the registry is empty again
C16_Witness ==
    /\ DOMAIN active = {}
    /\ \A w \in Sockets : wslog[w] # <<>>
    /\ \E w \in Sockets : pc[WsTask(w)] = "ws_closed"
    /\ \E w \in Sockets : pc[WsTask(w)] # "ws_closed" /\ ~alive[w]

\* C17: mark-read with a readerId that is not a participant of the conversation fails
\* with 403 and leaves the unread map of the conversation as it was.
C17_MarkReadForbidden ==
    [][\A t \in Tasks, c \in DOMAIN conversations, r \in Users :
          (mark_read(t, c, r) /\ ~is_participant(conversations[c], r))
             => /\ ret'[t].op = "mark_read" /\ ret'[t].status = 403
                /\ conversations'[c].unread = conversations[c].unread]_vars

\* C18: every conversation has exactly two distinct participants, and its unread map
\* has exactly these two ids as keys, each with a count that is not negative, after
\* any sequence of get-or-create, send-message, upload and mark-read calls.
C18_TwoParticipants ==
    \A c \in DOMAIN conversations :
        LET conv == conversations[c]
        IN /\ Len(conv.participants) = 2
           /\ conv.participants[1] # conv.participants[2]
           /\ DOMAIN conv.unread = PairOf(conv.participants)
           /\ \A p \in DOMAIN conv.unread : conv.unread[p] >= 0

\* the payment messages linked to payment p, in the store as the step leaves it
LinkedMessages(p) ==
    {m \in DOMAIN messages' : messages'[m].type = "payment" /\ messages'[m].paymentId = p}

\* message m is still there after the step, the same but for the fields F
SameBut(m, F) ==
    /\ m \in DOMAIN messages'
    /\ DOMAIN messages'[m] \ F = DOMAIN messages[m] \ F
    /\ \A f \in DOMAIN messages[m] \ F : messages'[m][f] = messages[m][f]

\* A payment has at most one payment message; only the insert of create_order adds a
\* message; every other step, the webhook's among them, leaves the number of
\* messages alone and changes nothing of a stored message but the fields F.
OneMessageInPlace(F) ==
    /\ \A p \in DOMAIN payments' : Cardinality(LinkedMessages(p)) <= 1
    /\ Len(messages') # Len(messages) =>
          /\ \E t \in Tasks : create_order_insert(t)
          /\ Len(messages') = Len(messages) + 1
    /\ \A t \in Tasks : pc[t] \in {"wh_body", "wh_find", "wh_update"} =>
          Len(messages') = Len(messages)
    /\ \A m \in DOMAIN messages : SameBut(m, F)

\* C19: a payment has at most one payment message, inserted once by create-order;
\* every later transition only updates the status field of that message in place,
\* and the webhook never changes the number of stored messages.
C19_Original == [][OneMessageInPlace({"status"})]_vars

\* C19, amended: as above, except that the update in place writes two fields of the
\* message, status and providerInfo (the payload of the webhook).
C19_OneMessageInPlace == [][OneMessageInPlace({"status", "providerInfo"})]_vars

\* order 1 was paid and then refunded by two webhook events: its one message, the
\* only one in the store, now says REFUNDED
C19_Witness ==
    /\ \E i, j \in DOMAIN applied :
          /\ i < j /\ applied[i].payment = 1 /\ applied[j].payment = 1
          /\ applied[i].status = "PAID" /\ applied[j].status = "REFUNDED"
    /\ Len(messages) = 1 /\ Len(emitted) = 3
    /\ messages[1].paymentId = 1 /\ messages[1].status = "REFUNDED"
    /\ "providerInfo" \in DOMAIN messages[1]

\* the payment.updated envelopes given to broadcast for payment p
UpdatesOf(p) ==
    {i \in DOMAIN emitted : emitted[i].type = "payment.updated" /\ emitted[i].paymentId = p}

\* C20: when no request is being handled, the status of every payment message equals
\* the status of its payment, whichever operation made the transition (webhook, test
\* completion, Kakao approval), and a payment that has left PENDING has had its
\* payment.updated envelope.
C20_StatusMirrors ==
    Quiescent =>
        \A m \in DOMAIN messages :
            LET p == messages[m].paymentId
            IN messages[m].type = "payment" =>
                  /\ messages[m].status = payments[p].status
                  /\ payments[p].status # "PENDING" => UpdatesOf(p) # {}

\* C21: get-or-create for a pair and listing that has a conversation changes nothing
\* but the updatedAt of that conversation (id, participants, createdAt, unread and
\* lastMessage stay, and so does every other conversation) and returns its id; when
\* there is none, the conversation it creates has unread 0 for both participants.
C21_GetOrCreateFrame ==
    [][\A t \in Tasks :
          get_or_create_write(t) =>
             LET l == loc[t]
                 m == match_convo(l.parts, l.listingId)
             IN IF m # {}
                THEN /\ Len(conversations') = Len(conversations)
                     /\ ret'[t].id \in m
                     /\ \A c \in DOMAIN conversations :
                           conversations'[c] =
                              IF c = ret'[t].id
                              THEN [conversations[c] EXCEPT !.updatedAt = l.now]
                              ELSE conversations[c]
                ELSE /\ Len(conversations') = Len(conversations) + 1
                     /\ ret'[t].id = Len(conversations')
                     /\ \A c \in DOMAIN conversations : conversations'[c] = conversations[c]
                     /\ conversations'[ret'[t].id].unread
                           = [p \in PairOf(l.participants) |-> 0]
                     /\ conversations'[ret'[t].id].createdAt = l.now]_vars

\* a get-or-create has just returned a conversation that existed, with a message in
\* it and an unread count: only its updatedAt is newer
C21_Witness ==
    /\ ret[1].op = "get_or_create" /\ ret[1].status = 200 /\ ret[1].found = 1
    /\ conversations[1].unread[2] = 1
    /\ conversations[1].lastMessage.senderId = 1
    /\ conversations[1].updatedAt > conversations[1].lastMessage.at
    /\ conversations[1].createdAt < conversations[1].lastMessage.at

\* a string field that is present and not empty
NonEmpty(x) == x # NoneStr /\ x # ""

\* C22: every chat message stored by send-message or by an upload has a non-empty
\* text or a non-empty imageUrl, and a send-message request with neither is rejected
\* (its response is an error).
C22_TextOrImage ==
    /\ \A m \in DOMAIN messages :
          messages[m].type = "chat" =>
              NonEmpty(messages[m].text) \/ NonEmpty(messages[m].imageUrl)
    /\ \A t \in Tasks :
          (pc[t] = "sm_insert" /\ loc[t].op = "send_message") =>
              NonEmpty(loc[t].doc.text) \/ NonEmpty(loc[t].doc.imageUrl)

\* socket w is registered under conversation c once the step is over
Registered(w, c) == w \in subscribers(active', c)

\* C23: a typing or stop_typing frame on a socket gives one typing envelope (isTyping
\* true for typing, false for stop_typing) to the subscribers of the conversation and
\* changes no conversation and no message; every other frame is ignored: no
\* broadcast, no change of the store, and the socket stays registered.
C23_TypingFrames ==
    [][\A w \in Sockets :
          LET a == WsTask(w)
              c == loc[a].convoId
          IN /\ \A type \in {"typing", "stop_typing"}, userId \in {0, 2} :
                   chat_ws_receive(w, type, userId) =>
                      /\ pc'[a] = "bcast"
                      /\ loc'[a].env.type = "typing" /\ loc'[a].env.convoId = c
                      /\ loc'[a].env.isTyping = (type = "typing")
                      /\ loc'[a].snap = subscribers(active, c)
                      /\ UNCHANGED store
             /\ ((\E userId \in {0, 2} : chat_ws_receive(w, "ping", userId))
                    \/ chat_ws_bad_frame(w)) =>
                      /\ pc'[a] = "ws_recv"
                      /\ Registered(w, c) /\ alive'[w]
                      /\ UNCHANGED <<store, wslog>>]_vars

\* C24: create-order with a chatId whose conversation has neither the buyer nor the
\* seller among its participants is rejected with 403, inserts no payment message,
\* leaves lastMessage alone and broadcasts no payment.started envelope.
C24_CreateOrderForbidden ==
    [][\A t \in Tasks :
          (/\ create_order_find(t)
           /\ loc[t].chatId \in DOMAIN conversations
           /\ ~is_participant(conversations[loc[t].chatId], loc[t].buyer_id)
           /\ ~is_participant(conversations[loc[t].chatId], loc[t].seller_id))
             => /\ pc'[t] = "idle" /\ ret'[t].status = 403
                /\ UNCHANGED <<store, emitted, wslog>>]_vars

\* the request task t is handling carries the signature of its body under the secret
Signed(t) ==
    /\ loc[t].signature.scheme # NoneStr
    /\ sig_val(loc[t].signature) = hmac(loc[t].secret, loc[t].payload)

\* C25: with a webhook secret configured, a webhook request whose signature header is
\* wrong or absent is rejected (400) and changes nothing: payments, wallets, ledger,
\* event records and chat messages stay as they were.
C25_SignedOnly ==
    [][\A t \in Tasks :
          (payments_webhook_process(t) /\ loc[t].secret # NoneStr /\ ~Signed(t))
             => /\ pc'[t] = "idle" /\ ret'[t].status = 400
                /\ UNCHANGED <<sql, store>>]_vars

RECURSIVE SumSales(_, _)
\* the total of the first n ledger rows that credit a sale of payment p
SumSales(n, p) ==
    IF n = 0 THEN 0
    ELSE SumSales(n - 1, p)
           + (IF ledger[n].related_payment_id = p /\ ledger[n].change > 0
              THEN ledger[n].change ELSE 0)

\* C26: a seller is credited at most once per payment: whatever completions run on
\* a payment (success webhooks with distinct event ids, test completion, Kakao
\* approval), its sale ledger rows never add up to more than its amount.
C26_CreditedOnce == \A p \in DOMAIN payments : SumSales(Len(ledger), p) <= payments[p].amount

\* C27: the wallet balance of every user equals the sum of the changes of the user's
\* ledger rows (0 for a user without a wallet), after any sequence of completions,
\* refunds and payouts.
C27_BalanceIsLedgerSum ==
    \A u \in Users : balance(wallets, u) = SumChanges(Len(ledger), u)

\* seller 2 was credited twice and paid out 7: the wallet holds 3
C27_Witness ==
    /\ Len(ledger) = 3 /\ balance(wallets, 2) = 3
    /\ \E i \in DOMAIN ledger : ledger[i].reason = "payout" /\ ledger[i].change = 0 - 7
    /\ \E i \in DOMAIN ledger : ledger[i].reason = "sale"

\* C28: a payout never drives a wallet under zero.  A payout of more than the
\* balance, or for a user without a wallet, fails with 400 "insufficient funds" and
\* leaves wallets and ledger alone; a payout that succeeds lowers the balance by
\* exactly its amount; and no balance is negative after any step.
C28_PayoutWithinBalance ==
    [][/\ \A t \in Tasks, u \in Users, amount \in Amounts :
             payout_to_user(t, u, amount) =>
                IF u \notin DOMAIN wallets \/ wallets[u] < amount
                THEN /\ ret'[t].op = "payout" /\ ret'[t].status = 400
                     /\ UNCHANGED <<wallets, ledger>>
                ELSE /\ ret'[t].op = "payout" /\ ret'[t].status = 200
                     /\ balance(wallets', u) = balance(wallets, u) - amount
                     /\ \A v \in Users \ {u} : balance(wallets', v) = balance(wallets, v)
                     /\ Len(ledger') = Len(ledger) + 1
       /\ \A u \in Users : balance(wallets', u) >= 0]_vars

\* seller 2 was paid out the whole balance of 5 and then refused a payout of 3
C28_Witness ==
    /\ ret[1].op = "payout" /\ ret[1].status = 400 /\ ret[1].user_id = 2
    /\ ret[1].amount = 3
    /\ 2 \in DOMAIN wallets /\ wallets[2] = 0
    /\ Len(ledger) = 2 /\ ledger[2].reason = "payout" /\ ledger[2].change = 0 - 5

\* C29: a broadcast for conversation C reaches only connections registered under C.
\* Its list is the set registered under C when it starts, each connection once; a
\* send goes to a connection not tried before; an envelope is delivered only to a
\* connection that is registered under C and was opened on C, and to no other.
C29_BroadcastScoped ==
    [][\A a \in Agents :
          /\ HandsOver(a) =>
                /\ Range(loc'[a].conns) = subscribers(active, loc'[a].convoId)
                /\ Len(loc'[a].conns) = Cardinality(subscribers(active, loc'[a].convoId))
          /\ broadcast_send(a) =>
                LET l == loc[a]
                    w == Head(l.conns)
                IN /\ w \notin l.tried /\ w \in l.snap
                   /\ \A v \in Sockets \ {w} : wslog'[v] = wslog[v]
                   /\ wslog'[w] # wslog[w] =>
                         /\ wslog'[w] = Append(wslog[w], l.env)
                         /\ w \in subscribers(active, l.convoId)
                         /\ loc[WsTask(w)].convoId = l.convoId
                         /\ l.env.convoId = l.convoId]_vars

\* the two sockets are on different conversations, and each has received the typing
\* envelope of its own conversation and nothing else
C29_Witness ==
    /\ DOMAIN active = {1, 2} /\ active[1] # active[2]
    /\ \A w \in Sockets :
          /\ Len(wslog[w]) = 1
          /\ pc[WsTask(w)] = "ws_recv"
          /\ wslog[w][1].convoId = loc[WsTask(w)].convoId

\* the messages stored for conversation c
MessagesOf(c) == {m \in DOMAIN messages : messages[m].convoId = c}

\* C30: when no request is being handled, the lastMessage of a conversation that has
\* messages describes the one stored last: its senderId is the sender of the message
\* with the largest id, however the handlers that wrote to it interleaved.
C30_LastMessageIsNewest ==
    Quiescent =>
        \A c \in DOMAIN conversations :
            MessagesOf(c) # {} =>
                conversations[c].lastMessage.senderId = messages[Max(MessagesOf(c))].senderId
====
